---- MODULE Spec2Model ----
(***************************************************************************)
(* Model of the community-registry desktop client: the egui redraw loop    *)
(* (App::update), the four view controllers, the background units of work  *)
(* they spawn on the tokio runtime, the mpsc result bridges between them   *)
(* and the DatabaseManager behind its tokio Mutex.                         *)
(***************************************************************************)
EXTENDS Integers, Sequences, FiniteSets, TLC

\* ------------------------------------------------------------------ bounds
MaxTasks == 5      \* background units alive at the same time
MaxChans == 4      \* bridges alive at the same time
MaxInserts == 2    \* rows the store accepts during one run
MaxInputs == 5     \* user inputs (clicks, selections, edits) during one run
MaxSaveInputs == 7 \* user inputs during one run of the user who only registers and searches
MaxSessionInputs == 6 \* user inputs during one run of the user who disconnects and reconnects
MaxStatsInputs == 7 \* user inputs during one run of the user who refreshes the dashboard and saves
MaxStatsLag == 2   \* user inputs a background unit can outlive during such a run
MaxFaults == 1     \* statements the store fails or rejects during one run
MaxLag == 1        \* user inputs a background unit can outlive
Workers == 1       \* user inputs whose waiting units race for the lock
MaxRun == 9        \* leading digits of a national-id text under validation
MaxTail == 3       \* characters that follow the leading digits of such a text

\* --------------------------------------------------------------- constants
None == 0                  \* Option::None of a receiver handle or a client
NoMessage == <<>>          \* Option::None of a banner message
Msg(text, detail) == <<text, detail>>
NoRet == [some |-> FALSE, success |-> FALSE, message |-> NoMessage]
SomeRet(success, message) == [some |-> TRUE, success |-> success, message |-> message]

AppState == {"Login", "Dashboard", "Queries", "Insertions", "About"}
QueryType == {"Personas", "Organizaciones", "Actividades", "Viajes"}
InsertionType == {"Persona", "Organizacion", "Actividad", "MacroSector", "UnidadVecinal", "Taller"}
CatalogKind == <<"Generos", "Nacionalidades", "UnidadesVecinales", "MacroSectores">>

\* Tables of the backing store that the statements of database.rs name in
\* their INSERT, COUNT and lookup statements.
Schema == {"per_personasmayores", "org_orgcomunitarias", "act_actividades", "via_viajes",
           "gen_generos", "nac_nacionalidades", "uv_unidadesvecinales", "mac_macrosectores",
           "tal_talleres"}

NotConnected == "No hay conexion a la base de datos"
StoreError == "db error"     \* any failure the store itself reports

\* ------------------------------------------------------------------- state
VARIABLES
    app,              \* App: state, is_connected, error_message, success_message, connection_receiver, running
    login_view,       \* LoginView: config, connecting
    dashboard_view,   \* DashboardView: stats, loading, stats_receiver; history: absorbed
    queries_view,     \* QueriesView: query_type, results, loading, catalogs_loaded, query_receiver;
                      \* history: issued, absorbed (the last payload a poll absorbed)
    insertions_view,  \* InsertionsView: insertion_type, forms, catalogs, loading, receivers
    db_manager,       \* DatabaseManager: client
    mutex,            \* the tokio Mutex around the DatabaseManager: TRUE when locked
    backend,          \* the relational store: rows and sequences per table
    chans,            \* the mpsc channels (bridges) that are alive
    tasks,            \* the spawned background units that have not ended, in spawn order
    inputs,           \* number of user inputs so far
    typed             \* the text field (or the dates) a function of utils.rs or a save is
                      \* applied to, and what the function returned

vars == <<app, login_view, dashboard_view, queries_view, insertions_view,
          db_manager, mutex, backend, chans, tasks, inputs, typed>>

\* The whole program state as one record, threaded through the handlers.
World ==
    [app |-> app, login_view |-> login_view, dashboard_view |-> dashboard_view,
     queries_view |-> queries_view, insertions_view |-> insertions_view,
     db_manager |-> db_manager, mutex |-> mutex, backend |-> backend,
     chans |-> chans, tasks |-> tasks, inputs |-> inputs,
     new |-> None, ret |-> NoRet, consumed |-> FALSE, overflow |-> FALSE]

Commit(w) ==
    /\ ~w.overflow
    /\ app' = w.app
    /\ login_view' = w.login_view
    /\ dashboard_view' = w.dashboard_view
    /\ queries_view' = w.queries_view
    /\ insertions_view' = w.insertions_view
    /\ db_manager' = w.db_manager
    /\ mutex' = w.mutex
    /\ backend' = w.backend
    /\ chans' = w.chans
    /\ tasks' = w.tasks
    /\ typed' = typed

\* ---------------------------------------------------------------- bridges
\* One mpsc::unbounded_channel: the queue of values in flight, whether the
\* receiver handle is still held, how many sender handles are alive; and, as
\* history, how many units were given a sender, how many values were sent and
\* received, and, while no second value is sent, the value sent and the value
\* the receiver got.
NoValue == [ok |-> FALSE, kind |-> "", msg |-> <<>>, data |-> {}, tag |-> -1]
FreeChan == [used |-> FALSE, rx |-> FALSE, senders |-> 0, queue |-> <<>>,
             producers |-> 0, sent |-> 0, recvd |-> 0, first |-> NoValue, got |-> NoValue]

\* A channel whose receiver and senders are all dropped is deallocated.
Reclaim(c) == IF c.used /\ ~c.rx /\ c.senders = 0 THEN FreeChan ELSE c

FreeChanIds(w) == {c \in 1..MaxChans : ~w.chans[c].used}

\* mpsc::unbounded_channel(): returns the world with a fresh channel and its id
\* in field "new"; the caller installs the receiver and hands out senders.
unbounded_channel(w) ==
    IF FreeChanIds(w) = {}
    THEN [w EXCEPT !.overflow = TRUE, !.new = 1]
    ELSE LET c == CHOOSE x \in FreeChanIds(w) : \A y \in FreeChanIds(w) : x <= y
         IN [w EXCEPT !.chans[c] = [FreeChan EXCEPT !.used = TRUE, !.rx = TRUE], !.new = c]

\* Dropping a receiver handle (the Option field is overwritten or set to None).
DropReceiver(w, c) ==
    IF c = None THEN w
    ELSE [w EXCEPT !.chans[c] = Reclaim([@ EXCEPT !.rx = FALSE, !.queue = <<>>])]

\* self.<field> = Some(rx) with the receiver of the channel just created: the
\* handle the field held before, if any, is dropped.
store_receiver(w, view, field) ==
    [DropReceiver(w, w[view][field]) EXCEPT ![view][field] = w.new]

send_twice(ch, v) ==
    LET c1 == [ch EXCEPT !.sent = @ + 1,
                         !.first = IF ch.sent = 0 THEN v ELSE NoValue,
                         !.got = IF ch.sent = 0 THEN @ ELSE NoValue]
    IN  IF ch.rx THEN [c1 EXCEPT !.queue = Append(Append(@, v), v)] ELSE c1

\* tx.send(v): never blocks; the value is discarded when the receiver is gone.
send(ch, v) ==
    LET c1 == [ch EXCEPT !.sent = @ + 1,
                         !.first = IF ch.sent = 0 THEN v ELSE NoValue,
                         !.got = IF ch.sent = 0 THEN @ ELSE NoValue]
    IN  IF ch.rx THEN [c1 EXCEPT !.queue = Append(@, v)] ELSE c1

\* receiver.try_recv(): Ok(v) exactly when a value is queued.
HasValue(w, c) == c # None /\ Len(w.chans[c].queue) > 0
Peek(w, c) == Head(w.chans[c].queue)
try_recv(w, c) ==
    [w EXCEPT !.chans[c] = [@ EXCEPT !.queue = Tail(@), !.recvd = @ + 1,
                                     !.got = IF w.chans[c].sent = 1 THEN Head(w.chans[c].queue) ELSE @]]

\* ------------------------------------------------------- background units
\* tokio::spawn(async move { ... }) holding a sender of channel tx.
NewTask(kind, arg, tx, born) ==
    [kind |-> kind, arg |-> arg, tx |-> tx, pc |-> "spawned", born |-> born]

spawn(w, kind, arg, tx) ==
    IF Len(w.tasks) >= MaxTasks
    THEN [w EXCEPT !.overflow = TRUE]
    ELSE [w EXCEPT !.tasks = Append(@, NewTask(kind, arg, tx, w.inputs)),
                   !.chans = IF tx = None THEN @
                             ELSE [@ EXCEPT ![tx].senders = @ + 1, ![tx].producers = @ + 1]]

\* tokio::spawn of a block that owns a sender of the channel just created.
spawn_with_sender(w, kind, arg) == spawn(w, kind, arg, w.new)

\* ------------------------------------------------------------ App (app.rs)
clear_messages(w) ==
    [w EXCEPT !.app.error_message = NoMessage, !.app.success_message = NoMessage]

set_state(w, state) ==
    clear_messages([w EXCEPT !.app.state = state])

set_error(w, message) ==
    [w EXCEPT !.app.error_message = message, !.app.success_message = NoMessage]

set_success(w, message) ==
    [w EXCEPT !.app.success_message = message, !.app.error_message = NoMessage]

\* ---------------------------------------------------- QueriesView triggers
\* QueriesView::load_catalogs fills the filter catalogs with fixed demo rows.
queries_load_catalogs(w) ==
    [w EXCEPT !.queries_view.catalogs_loaded = TRUE]

\* self.loading = true at the head of the three execute_* functions.
\* (issued is history: the input count at the latest trigger.)
query_loading(w) ==
    [w EXCEPT !.queries_view.loading = TRUE, !.queries_view.issued = w.inputs]

execute_query_keep(w) ==
    IF w.queries_view.query_receiver # None
    THEN spawn(query_loading(w), "query", w.queries_view.query_type, w.queries_view.query_receiver)
    ELSE spawn_with_sender(store_receiver(unbounded_channel(query_loading(w)),
                                          "queries_view", "query_receiver"),
                           "query", w.queries_view.query_type)

execute_query(w) ==
    spawn_with_sender(store_receiver(unbounded_channel(query_loading(w)),
                                     "queries_view", "query_receiver"),
                      "query", w.queries_view.query_type)

execute_initial_query(w) ==
    spawn_with_sender(store_receiver(unbounded_channel(query_loading(w)),
                                     "queries_view", "query_receiver"),
                      "initial_query", "Personas")

execute_auto_query(w) ==
    spawn_with_sender(store_receiver(unbounded_channel(query_loading(w)),
                                     "queries_view", "query_receiver"),
                      "auto_query", w.queries_view.query_type)

initialize_data(w) == execute_initial_query(queries_load_catalogs(w))

\* -------------------------------------------------------- App, continued
set_connected(w, connected) ==
    IF connected /\ w.app.state = "Login"
    THEN initialize_data(set_state([w EXCEPT !.app.is_connected = connected], "Dashboard"))
    ELSE IF ~connected
         THEN set_state([w EXCEPT !.app.is_connected = connected], "Login")
         ELSE [w EXCEPT !.app.is_connected = connected]

start_connection(w, config) ==
    spawn_with_sender(store_receiver(unbounded_channel(w), "app", "connection_receiver"),
                      "connect", config)

check_connection_result_stuck(w) ==
    LET rx == w.app.connection_receiver
        result == Peek(w, rx)
        w1 == [try_recv(w, rx) EXCEPT !.login_view.connecting = ~result.ok]
    IN  IF ~HasValue(w, rx) THEN w
        ELSE [DropReceiver(IF result.ok
                           THEN set_success(set_connected(w1, TRUE), result.msg)
                           ELSE set_error(w1, result.msg),
                           rx)
                EXCEPT !.app.connection_receiver = None]

check_connection_result(w) ==
    LET rx == w.app.connection_receiver
        result == Peek(w, rx)
        w1 == [try_recv(w, rx) EXCEPT !.login_view.connecting = FALSE]
    IN  IF ~HasValue(w, rx) THEN w
        ELSE [DropReceiver(IF result.ok
                           THEN set_success(set_connected(w1, TRUE), result.msg)
                           ELSE set_error(w1, result.msg),
                           rx)
                EXCEPT !.app.connection_receiver = None]

on_exit_inline(w) ==
    [w EXCEPT !.db_manager.client = None, !.app.running = FALSE]

\* App::on_exit: a fire-and-forget unit that disconnects; it has no bridge.
on_exit(w) ==
    [spawn(w, "disconnect", "", None) EXCEPT !.app.running = FALSE]

\* ----------------------------------------------- DashboardView (dashboard.rs)
\* History of a controller's polls: whether a poll has absorbed a payload,
\* whether the last one absorbed was Ok, and a bit that flips at every absorption.
NotAbsorbed == [some |-> FALSE, flip |-> FALSE, ok |-> FALSE]
Absorbed(last, result) == [some |-> TRUE, flip |-> ~last.flip, ok |-> result.ok]

\* Option<DashboardStats>: field some tells Some from None.
DashboardStats(p, o, a, v) ==
    [some |-> TRUE, total_personas |-> p, total_organizaciones |-> o,
     total_actividades |-> a, total_viajes |-> v,
     actividades_mes_actual |-> 0, nuevas_personas_mes |-> 0, personas_por_macro |-> <<>>]
DashboardStatsDefault == DashboardStats(0, 0, 0, 0)
NoStats == [DashboardStatsDefault EXCEPT !.some = FALSE]

refresh_stats(w) ==
    spawn_with_sender(store_receiver(unbounded_channel([w EXCEPT !.dashboard_view.loading = TRUE]),
                                     "dashboard_view", "stats_receiver"),
                      "stats", "")

check_stats_result_keep(w) ==
    LET rx == w.dashboard_view.stats_receiver
        result == Peek(w, rx)
    IN  IF ~HasValue(w, rx) THEN w
        ELSE [try_recv(w, rx) EXCEPT
                !.dashboard_view.loading = FALSE,
                !.dashboard_view.absorbed = Absorbed(@, result),
                !.dashboard_view.stats = IF result.ok THEN result.data ELSE DashboardStatsDefault]

check_stats_result(w) ==
    LET rx == w.dashboard_view.stats_receiver
        result == Peek(w, rx)
    IN  IF ~HasValue(w, rx) THEN w
        ELSE [DropReceiver(try_recv(w, rx), rx) EXCEPT
                !.dashboard_view.loading = FALSE,
                !.dashboard_view.absorbed = Absorbed(@, result),
                !.dashboard_view.stats = IF result.ok THEN result.data ELSE DashboardStatsDefault,
                !.dashboard_view.stats_receiver = None]

\* --------------------------------------------------- QueriesView (queries.rs)
NoResults == [t \in QueryType |-> <<>>]

check_query_result_stale(w) ==
    LET rx == w.queries_view.query_receiver
        result == Peek(w, rx)
    IN  IF ~HasValue(w, rx) THEN w
        ELSE [DropReceiver(try_recv(w, rx), rx) EXCEPT
                !.queries_view.loading = FALSE,
                !.queries_view.absorbed = Absorbed(@, result),
                !.queries_view.results = IF result.ok THEN [@ EXCEPT ![result.kind] = result.data]
                                         ELSE @,
                !.queries_view.query_receiver = None]

check_query_result(w) ==
    LET rx == w.queries_view.query_receiver
        result == Peek(w, rx)
    IN  IF ~HasValue(w, rx) THEN w
        ELSE [DropReceiver(try_recv(w, rx), rx) EXCEPT
                !.queries_view.loading = FALSE,
                !.queries_view.absorbed = Absorbed(@, result),
                !.queries_view.results = IF result.ok THEN [@ EXCEPT ![result.kind] = result.data]
                                         ELSE NoResults,
                !.queries_view.query_receiver = None]

\* The connection parameters of the login form: complete and accepted by the
\* store, complete but rejected by it, or with a required field left empty.
Config == {"complete", "rejected", "blank"}

\* ------------------------------------------- InsertionsView (insertions.rs)
\* A form is either as constructed (default, all fields empty) or filled in
\* with values that pass the form's validation; the Persona form can also
\* hold one of the entries of PersonaEntries.
FormValue == {"default", "filled"}

DefaultForms == [k \in InsertionType |-> "default"]

NoCatalogs == [k \in {CatalogKind[i] : i \in 1..4} |-> {}]

\* The Persona form's text fields are sequences of characters.  The entries
\* a user types into it: "filled" passes every check, and each of the others
\* differs from it in one field.
Digits == {"0", "1", "2", "3", "4", "5", "6", "7", "8", "9"}
Letters == {"a", "b", "c", "d", "e", "f", "g", "h", "i", "j", "k", "l", "m", "n", "o", "p", "q", "r", "s", "t", "u", "v", "w", "x", "y", "z",
            "A", "B", "C", "D", "E", "F", "G", "H", "I", "J", "K", "L", "M", "N", "O", "P", "Q", "R", "S", "T", "U", "V", "W", "X", "Y", "Z"}

PersonaEntries == {"filled", "bad_rut", "bad_email", "weak_email", "missing"}

PersonaFields(entry) ==
    [rut |-> CASE entry = "default" -> <<>>
               [] entry = "bad_rut" -> <<"1", "2", "3">>
               [] OTHER -> <<"1", "2", "3", "4", "5", "6", "7", "-", "8">>,
     email |-> CASE entry = "filled" -> <<"a", "n", "a", "@", "m", "a", ".", "c", "l">>
                 [] entry = "bad_email" -> <<"n", "a", "d", "a">>
                 [] entry = "weak_email" -> <<"a", "b", "@", "c", ".", "d">>
                 [] OTHER -> <<>>,
     required |-> entry \notin {"default", "missing"}]

\* validate_rut_format: ^[0-9]{7,8}-[0-9Kk]$
validate_rut_format(rut) ==
    /\ Len(rut) \in {9, 10}
    /\ \A k \in 1..(Len(rut) - 2) : rut[k] \in Digits
    /\ rut[Len(rut) - 1] = "-"
    /\ rut[Len(rut)] \in Digits \cup {"K", "k"}

\* utils::validate_email: ^[A-Za-z0-9._%+-]+@[A-Za-z0-9.-]+\.[A-Za-z]{2,}$
validate_email(email) ==
    \E at \in 2..Len(email) : \E dot \in (at + 2)..(Len(email) - 2) :
        /\ email[at] = "@" /\ email[dot] = "."
        /\ \A k \in 1..(at - 1) : email[k] \in Letters \cup Digits \cup {".", "_", "%", "+", "-"}
        /\ \A k \in (at + 1)..(dot - 1) : email[k] \in Letters \cup Digits \cup {".", "-"}
        /\ \A k \in (dot + 1)..Len(email) : email[k] \in Letters

Contains(text, ch) == \E k \in 1..Len(text) : text[k] = ch

\* email_valid is the form's own check: empty, or '@', '.' and more than five
\* characters; required stands for the seven required fields.
validate_persona_form(w) ==
    LET form == PersonaFields(w.insertions_view.forms["Persona"])
    IN  /\ validate_rut_format(form.rut)
        /\ form.required
        /\ \/ form.email = <<>>
           \/ Contains(form.email, "@") /\ Contains(form.email, ".") /\ Len(form.email) > 5

\* The Organizacion form: its name as typed (empty as constructed, two spaces
\* for the entry "blank_name") and whether the four other required fields
\* (direccion, fecha_constitucion, personalidad_juridica, unidad_vecinal_id)
\* are filled in.
OrganizacionEntries == {"filled", "blank_name"}

OrganizacionFields(entry) ==
    [nombre |-> CASE entry = "default" -> <<>>
                  [] entry = "blank_name" -> <<" ", " ">>
                  [] OTHER -> <<"C", "l", "u", "b">>,
     required |-> entry # "default"]

\* !self.organizacion_form.nombre.is_empty() && the other required fields
validate_organizacion_form(w) ==
    LET form == OrganizacionFields(w.insertions_view.forms["Organizacion"])
    IN  form.nombre # <<>> /\ form.required
validate_actividad_form(w) == w.insertions_view.forms["Actividad"] = "filled"
validate_unidad_vecinal_form(w) == w.insertions_view.forms["UnidadVecinal"] = "filled"

insertions_load_catalogs_three(w) ==
    spawn_with_sender(
        spawn_with_sender(
            spawn_with_sender(
                store_receiver(unbounded_channel(w), "insertions_view", "catalog_receiver"),
                "catalog", CatalogKind[1]),
            "catalog", CatalogKind[2]),
        "catalog", CatalogKind[3])

\* InsertionsView::load_catalogs: one channel, four units, one per catalog.
insertions_load_catalogs(w) ==
    spawn_with_sender(
        spawn_with_sender(
            spawn_with_sender(
                spawn_with_sender(
                    store_receiver(unbounded_channel(w), "insertions_view", "catalog_receiver"),
                    "catalog", CatalogKind[1]),
                "catalog", CatalogKind[2]),
            "catalog", CatalogKind[3]),
        "catalog", CatalogKind[4])

\* The part the six save_* functions share: channel, receiver, unit.
InstallInsertion(w, kind) ==
    spawn_with_sender(store_receiver(unbounded_channel(w), "insertions_view", "insertion_receiver"),
                      "insert", kind)

save_persona(w) ==
    IF validate_persona_form(w)
    THEN InstallInsertion([w EXCEPT !.insertions_view.loading = TRUE], "Persona")
    ELSE w

save_organizacion(w) ==
    IF validate_organizacion_form(w) THEN InstallInsertion(w, "Organizacion") ELSE w

save_actividad(w) ==
    IF validate_actividad_form(w) THEN InstallInsertion(w, "Actividad") ELSE w

save_macro_sector(w) ==
    IF w.insertions_view.forms["MacroSector"] = "filled" THEN InstallInsertion(w, "MacroSector") ELSE w

save_unidad_vecinal(w) ==
    IF validate_unidad_vecinal_form(w) THEN InstallInsertion(w, "UnidadVecinal") ELSE w

save_taller(w) ==
    IF w.insertions_view.forms["Taller"] = "filled" THEN InstallInsertion(w, "Taller") ELSE w

check_insertion_result_reset(w) ==
    LET rx == w.insertions_view.insertion_receiver
        result == Peek(w, rx)
        type == w.insertions_view.insertion_type
        w1 == [DropReceiver(try_recv(w, rx), rx) EXCEPT
                 !.insertions_view.loading = FALSE,
                 !.insertions_view.insertion_receiver = None,
                 !.insertions_view.forms[type] = "default"]
    IN  IF ~HasValue(w, rx) THEN [w EXCEPT !.ret = NoRet]
        ELSE IF result.ok
             THEN [insertions_load_catalogs(w1) EXCEPT !.ret = SomeRet(TRUE, result.msg)]
             ELSE [w1 EXCEPT !.ret = SomeRet(FALSE, result.msg)]

\* Returns in field ret what the function returns: None or (success, message).
check_insertion_result(w) ==
    LET rx == w.insertions_view.insertion_receiver
        result == Peek(w, rx)
        type == w.insertions_view.insertion_type
        w1 == [DropReceiver(try_recv(w, rx), rx) EXCEPT
                 !.insertions_view.loading = FALSE,
                 !.insertions_view.insertion_receiver = None]
    IN  IF ~HasValue(w, rx) THEN [w EXCEPT !.ret = NoRet]
        ELSE IF result.ok
             THEN [insertions_load_catalogs([w1 EXCEPT !.insertions_view.forms[type] = "default"])
                     EXCEPT !.ret = SomeRet(TRUE, result.msg)]
             ELSE [w1 EXCEPT !.ret = SomeRet(FALSE, result.msg)]

RECURSIVE check_catalog_updates(_)
check_catalog_updates(w) ==
    LET rx == w.insertions_view.catalog_receiver
        update == Peek(w, rx)
    IN  IF ~HasValue(w, rx) THEN w
        ELSE check_catalog_updates([try_recv(w, rx) EXCEPT
                                      !.insertions_view.catalogs[update.kind] = update.data])

\* ------------------------------------------------------------ user inputs
\* What the user does during one frame: nothing, or one click, selection or edit.
NoInput == [kind |-> "none", arg |-> ""]
Input(kind, arg) == [kind |-> kind, arg |-> arg]
Consume(w) == [w EXCEPT !.consumed = TRUE]

\* InsertionsView::show, from top to bottom: the first load of the catalogs,
\* the type selector, the form of the selected type with its two buttons.
ensure_catalogs(w) ==
    IF ~w.insertions_view.catalogs_loaded
    THEN insertions_load_catalogs([w EXCEPT !.insertions_view.catalogs_loaded = TRUE])
    ELSE w

insertion_type_selector(w, inp) ==
    IF inp.kind = "insertion_type"
    THEN Consume([w EXCEPT !.insertions_view.insertion_type = inp.arg])
    ELSE w

show_form(w, inp) ==
    LET type == w.insertions_view.insertion_type
    IN  CASE inp.kind = "edit_form" ->
                Consume([w EXCEPT !.insertions_view.forms[type] = inp.arg])
          [] inp.kind = "clear_form" ->
                Consume([w EXCEPT !.insertions_view.forms[type] = "default"])
          [] inp.kind = "save" /\ type = "Persona" ->
                Consume(IF validate_persona_form(w) THEN save_persona(w) ELSE w)
          [] inp.kind = "save" /\ type = "Organizacion" -> Consume(save_organizacion(w))
          [] inp.kind = "save" /\ type = "Actividad" -> Consume(save_actividad(w))
          [] inp.kind = "save" /\ type = "MacroSector" -> Consume(save_macro_sector(w))
          [] inp.kind = "save" /\ type = "UnidadVecinal" -> Consume(save_unidad_vecinal(w))
          [] inp.kind = "save" /\ type = "Taller" -> Consume(save_taller(w))
          [] OTHER -> w

\* What show does with the world its poll of the insertion bridge left: it
\* returns at once when the poll absorbed a result.
show_unless_result(w, inp) ==
    IF w.ret.some THEN w
    ELSE show_form(insertion_type_selector(ensure_catalogs(check_catalog_updates(w)), inp), inp)

insertions_show(w, inp) == show_unless_result(check_insertion_result(w), inp)

\* DashboardView::show: the poll, then the Actualizar button, enabled unless loading.
refresh_button(w, inp) ==
    IF inp.kind = "refresh" /\ ~w.dashboard_view.loading
    THEN Consume(refresh_stats(w))
    ELSE w

dashboard_show(w, inp) == refresh_button(check_stats_result(w), inp)

\* QueriesView::show: the poll, the first load of the catalogs, the type
\* selector (a change of type runs the automatic query), the Buscar button.
ensure_filter_catalogs(w) ==
    IF ~w.queries_view.catalogs_loaded THEN queries_load_catalogs(w) ELSE w

query_type_selector(w, inp) ==
    IF inp.kind # "query_type" THEN w
    ELSE IF w.queries_view.query_type # inp.arg
         THEN execute_auto_query(Consume([w EXCEPT !.queries_view.query_type = inp.arg]))
         ELSE Consume([w EXCEPT !.queries_view.query_type = inp.arg])

buscar_button(w, inp) ==
    IF inp.kind = "buscar" THEN Consume(execute_query(w)) ELSE w

queries_show(w, inp) ==
    buscar_button(query_type_selector(ensure_filter_catalogs(check_query_result(w)), inp), inp)

\* The Login arm of App::update.
login_panel(w, inp) ==
    CASE inp.kind = "config" -> Consume([w EXCEPT !.login_view.config = inp.arg])
      [] inp.kind = "connect" /\ ~w.login_view.connecting ->
            IF w.login_view.config # "blank"
            THEN Consume(start_connection([w EXCEPT !.login_view.connecting = TRUE], w.login_view.config))
            ELSE Consume(set_error(w, Msg("Por favor complete todos los campos requeridos", "")))
      [] OTHER -> w

\* The arm of App::update for every other state, from top to bottom: the
\* sidebar, the banner with its dismiss button, the view of the current state.
sidebar_show(w, inp) ==
    IF inp.kind = "nav" THEN Consume(set_state(w, inp.arg)) ELSE w

show_messages(w, inp) ==
    IF /\ inp.kind = "dismiss"
       /\ w.app.error_message # NoMessage \/ w.app.success_message # NoMessage
    THEN Consume(clear_messages(w))
    ELSE w

\* if let Some((success, message)) = self.insertions_view.show(ui) { ... }
insertion_outcome(w) ==
    IF ~w.ret.some THEN w
    ELSE IF w.ret.success THEN set_success(w, w.ret.message)
         ELSE set_error(w, w.ret.message)

show_view(w, inp) ==
    CASE w.app.state = "Dashboard" -> dashboard_show(check_stats_result(w), inp)
      [] w.app.state = "Queries" -> queries_show(check_query_result(w), inp)
      [] w.app.state = "Insertions" -> insertion_outcome(insertions_show(w, inp))
      [] OTHER -> w

main_panel(w, inp) == show_view(show_messages(sidebar_show(w, inp), inp), inp)

\* match self.state of App::update, after the poll of the connection bridge.
show_state(w, inp) ==
    IF w.app.state = "Login" THEN login_panel(w, inp) ELSE main_panel(w, inp)

\* App::update, one frame of the redraw loop with the user's input inp.
update(w, inp) == show_state(check_connection_result(w), inp)

\* ------------------------------------------------------------ construction
\* App::new: every field as the constructors set it; DashboardView::new ends
\* by calling refresh_stats.
Constructed ==
    [app |-> [state |-> "Login", is_connected |-> FALSE, error_message |-> NoMessage,
              success_message |-> NoMessage, connection_receiver |-> None, running |-> TRUE],
     login_view |-> [config |-> "complete", connecting |-> FALSE],
     dashboard_view |-> [stats |-> NoStats, loading |-> FALSE, stats_receiver |-> None,
                         absorbed |-> NotAbsorbed],
     queries_view |-> [query_type |-> "Personas", results |-> NoResults, loading |-> FALSE,
                       catalogs_loaded |-> FALSE, query_receiver |-> None,
                       issued |-> -1, absorbed |-> NotAbsorbed],
     insertions_view |-> [insertion_type |-> "Persona", forms |-> DefaultForms,
                          catalogs |-> NoCatalogs, loading |-> FALSE, catalogs_loaded |-> FALSE,
                          insertion_receiver |-> None, catalog_receiver |-> None],
     db_manager |-> [client |-> None],
     mutex |-> FALSE,
     backend |-> [rows |-> [t \in Schema |-> IF t \in {"via_viajes", "tal_talleres"} THEN {} ELSE {1}],
                  constraints |-> {"chk_per_email_formato"},
                  inserted |-> 0, faults |-> 0],
     chans |-> [c \in 1..MaxChans |-> FreeChan],
     tasks |-> <<>>, inputs |-> 0,
     new |-> None, ret |-> NoRet, consumed |-> FALSE, overflow |-> FALSE]

AppNew == refresh_stats(Constructed)

\* Nothing is typed yet and no function of utils.rs has been applied.
Untyped == [fn |-> "none", arg |-> <<>>, out |-> <<>>]

Started ==
    /\ app = AppNew.app
    /\ login_view = AppNew.login_view
    /\ dashboard_view = AppNew.dashboard_view
    /\ queries_view = AppNew.queries_view
    /\ insertions_view = AppNew.insertions_view
    /\ db_manager = AppNew.db_manager
    /\ mutex = AppNew.mutex
    /\ backend = AppNew.backend
    /\ chans = AppNew.chans
    /\ tasks = AppNew.tasks
    /\ inputs = 0

Init == Started /\ typed = Untyped

\* --------------------------------------------------- the redraw loop's steps
\* The user acts again only when the units spawned MaxLag inputs ago have ended.
UserReadyWithin(n) ==
    /\ inputs < n
    /\ \A i \in 1..Len(tasks) : inputs + 1 - tasks[i].born <= MaxLag

UserReady == UserReadyWithin(MaxInputs)

\* A frame commits as the frame of input inp only if a widget took the input.
CommitInput(w) == w.consumed /\ Commit(w)

FrameWithin(inp, n) ==
    /\ app.running
    /\ UserReadyWithin(n)
    /\ CommitInput(update([World EXCEPT !.inputs = inputs + 1], inp))
    /\ inputs' = inputs + 1

Frame(inp) == FrameWithin(inp, MaxInputs)

\* A frame without user input.
Tick ==
    /\ app.running
    /\ Commit(update(World, NoInput))
    /\ UNCHANGED inputs

EditConfig == \E c \in Config : c # login_view.config /\ Frame(Input("config", c))
ClickConnect == Frame(Input("connect", ""))
Navigate == \E s \in AppState : s # app.state /\ Frame(Input("nav", s))
DismissMessages == Frame(Input("dismiss", ""))
ClickRefresh == Frame(Input("refresh", ""))
SelectQueryType == \E t \in QueryType : t # queries_view.query_type /\ Frame(Input("query_type", t))
ClickBuscar == Frame(Input("buscar", ""))
SelectInsertionType ==
    \E t \in InsertionType : t # insertions_view.insertion_type /\ Frame(Input("insertion_type", t))
\* The entries the user types into the form of the selected type.
FormEntries(type) == IF type = "Organizacion" THEN OrganizacionEntries ELSE {"filled"}

EditForm ==
    \E entry \in FormEntries(insertions_view.insertion_type) :
        /\ insertions_view.forms[insertions_view.insertion_type] # entry
        /\ Frame(Input("edit_form", entry))
ClearForm ==
    /\ insertions_view.forms[insertions_view.insertion_type] # "default"
    /\ Frame(Input("clear_form", ""))
ClickSave == Frame(Input("save", ""))

\* The window is closed: App::on_exit runs and no frame follows.
Exit ==
    /\ app.running
    /\ UserReady
    /\ Commit(on_exit([World EXCEPT !.inputs = inputs + 1]))
    /\ inputs' = inputs + 1

\* -------------------------------------------------- DatabaseManager (database.rs)
\* DatabaseManager::connect up to self.client = Some(client): ok is whether
\* tokio_postgres::connect succeeds; the new handle is distinct from the one
\* held, which a failure leaves in place.  DatabaseManager::disconnect.
NewClient(m) == IF m.client = 1 THEN 2 ELSE 1

connect_drops(m, ok) ==
    IF ok THEN [m EXCEPT !.client = NewClient(m)] ELSE [m EXCEPT !.client = None]

connect(m, ok) ==
    IF ok THEN [m EXCEPT !.client = NewClient(m)] ELSE m

disconnect(m) == [m EXCEPT !.client = None]

\* What one statement does on the store.  ok is the store's verdict on the
\* statement when it reaches it (an I/O failure or a constraint violation
\* makes it FALSE); a statement naming a relation the schema lacks fails.
Connected == db_manager.client # None

TableOf(qt) ==
    CASE qt = "Personas" -> "per_personasmayores"
      [] qt = "Organizaciones" -> "org_orgcomunitarias"
      [] qt = "Actividades" -> "actividades"
      [] OTHER -> ""

InsertTableOf(k) ==
    CASE k = "Persona" -> "per_personasmayores"
      [] k = "Organizacion" -> "org_orgcomunitarias"
      [] k = "Actividad" -> "act_actividades"
      [] k = "MacroSector" -> "mac_macrosectores"
      [] k = "UnidadVecinal" -> "uv_unidadesvecinales"
      [] k = "Taller" -> "tal_talleres"

CatalogTableOf(k) ==
    CASE k = "Generos" -> "gen_generos"
      [] k = "Nacionalidades" -> "nac_nacionalidades"
      [] k = "UnidadesVecinales" -> "uv_unidadesvecinales"
      [] k = "MacroSectores" -> "mac_macrosectores"

CountTables == <<"per_personasmayores", "org_orgcomunitarias", "act_actividades", "via_viajes">>

\* The verdicts the store can still give: it fails at most MaxFaults statements.
Verdicts(b) == IF b.faults < MaxFaults THEN BOOLEAN ELSE {TRUE}
Charge(b, ok) == IF ok THEN b ELSE [b EXCEPT !.faults = @ + 1]

Succeeds(table, ok) == ok /\ table \in Schema

Rows(table) == backend.rows[table]

MaxId(S) == IF S = {} THEN 0 ELSE CHOOSE x \in S : \A y \in S : y <= x

\* The result values the units put on their bridges.
\* (tag is history: for a query unit, the input count at which it was spawned.)
Ok(kind, msg, data) == [ok |-> TRUE, kind |-> kind, msg |-> msg, data |-> data, tag |-> -1]
Err(msg) == [ok |-> FALSE, kind |-> "", msg |-> msg, data |-> {}, tag |-> -1]
Cause == IF Connected THEN StoreError ELSE NotConnected

\* ------------------------------------------------- steps of background units
UIVars == <<app, login_view, dashboard_view, queries_view, insertions_view, inputs, typed>>

\* db_manager.lock().await returns: the unit now holds the guard.  The
\* runtime starts the units that were spawned during one user input in spawn
\* order, and the fair Mutex serves them in the order they reach lock(); units
\* of the Workers oldest inputs that still wait race for the lock.
\* Overtaken(i) is the set of older inputs with a unit that still waits.
Overtaken(i) == {tasks[j].born : j \in {k \in 1..(i - 1) : tasks[k].pc = "spawned"}} \ {tasks[i].born}

FirstOfInput(i) == \A j \in 1..(i - 1) : tasks[j].pc = "spawned" => tasks[j].born # tasks[i].born

lock_unguarded(i) ==
    /\ FirstOfInput(i)
    /\ Cardinality(Overtaken(i)) < Workers
    /\ mutex' = TRUE
    /\ tasks' = [tasks EXCEPT ![i].pc = "locked"]

lock_during_stats(i) ==
    /\ ~mutex \/ \E j \in 1..Len(tasks) : tasks[j].kind = "stats" /\ tasks[j].pc = "locked"
    /\ FirstOfInput(i)
    /\ Cardinality(Overtaken(i)) < Workers
    /\ mutex' = TRUE
    /\ tasks' = [tasks EXCEPT ![i].pc = "locked"]

lock(i) ==
    /\ ~mutex
    /\ FirstOfInput(i)
    /\ Cardinality(Overtaken(i)) < Workers
    /\ mutex' = TRUE
    /\ tasks' = [tasks EXCEPT ![i].pc = "locked"]

Acquire(i) ==
    /\ tasks[i].pc = "spawned"
    /\ lock(i)
    /\ UNCHANGED <<UIVars, db_manager, backend, chans>>

\* The async block ends: the guard and the sender are dropped.
RemoveAt(seq, i) == [j \in 1..(Len(seq) - 1) |-> IF j < i THEN seq[j] ELSE seq[j + 1]]

End(i, ch) ==
    /\ mutex' = FALSE
    /\ chans' = IF tasks[i].tx = None THEN ch
                ELSE [ch EXCEPT ![tasks[i].tx] = Reclaim([@ EXCEPT !.senders = @ - 1])]
    /\ tasks' = RemoveAt(tasks, i)
    /\ UNCHANGED UIVars

\* let _ = tx.send(v), after which the block has nothing left to do and ends.
QueryKinds == {"query", "initial_query", "auto_query"}

SendAndEnd(i, v) ==
    LET tagged == IF tasks[i].kind \in QueryKinds THEN [v EXCEPT !.tag = tasks[i].born] ELSE v
    IN  End(i, [chans EXCEPT ![tasks[i].tx] = send(@, tagged)])

fix_email_constraint_toggle(cs, okDrop, okAdd) ==
    LET dropped == IF okDrop THEN cs \ {"chk_per_email_formato"} ELSE cs
    IN  IF ~okAdd THEN dropped
        ELSE IF "chk_per_email_formato_temp" \in dropped
             THEN dropped \ {"chk_per_email_formato_temp"}
             ELSE dropped \cup {"chk_per_email_formato_temp"}

\* DatabaseManager::fix_email_constraint_temp: DROP CONSTRAINT IF EXISTS
\* (result ignored), then ADD CONSTRAINT, which the store refuses when the
\* constraint exists already.
fix_email_constraint_temp(cs, okDrop, okAdd) ==
    LET dropped == IF okDrop THEN cs \ {"chk_per_email_formato"} ELSE cs
    IN  IF okAdd /\ "chk_per_email_formato_temp" \notin dropped
        THEN dropped \cup {"chk_per_email_formato_temp"}
        ELSE dropped

\* App::start_connection's unit: manager.connect(&config), which installs the
\* new client and applies the constraint fix, whose failure it only logs; then
\* manager.test_connection() and the send of the outcome.  The calls a unit
\* makes under the guard are one step: nothing else can touch the manager or
\* the store until the guard is dropped.
ConnectCall(i) ==
    /\ tasks[i].kind = "connect" /\ tasks[i].pc = "locked"
    /\ IF tasks[i].arg # "complete"
       THEN /\ db_manager' = connect(db_manager, FALSE)
            /\ backend' = backend
            /\ SendAndEnd(i, Err(Msg("Error de conexion", StoreError)))
       ELSE \E ok \in Verdicts(backend) :
              IF ~ok
              THEN /\ db_manager' = connect(db_manager, ok)
                   /\ backend' = Charge(backend, ok)
                   /\ SendAndEnd(i, Err(Msg("Error de conexion", StoreError)))
              ELSE /\ db_manager' = connect(db_manager, ok)
                   /\ \E okDrop, okAdd \in Verdicts(backend) :
                         /\ okDrop \/ okAdd
                         /\ LET fixed == Charge([backend EXCEPT !.constraints =
                                                    fix_email_constraint_temp(@, okDrop, okAdd)],
                                                okDrop /\ okAdd)
                            IN  \E okTest \in Verdicts(fixed) :
                                  /\ backend' = Charge(fixed, okTest)
                                  /\ IF okTest
                                     THEN SendAndEnd(i, Ok("", Msg("Conexion establecida exitosamente", ""), {}))
                                     ELSE SendAndEnd(i, Err(Msg("Error al probar la conexion", "")))

\* DashboardView::refresh_stats's unit: get_dashboard_stats, four counts in
\* sequence, the first that fails ending the call with its error; failed is
\* the count the store fails, 0 when it fails none.
StatsCount(i) ==
    /\ tasks[i].kind = "stats" /\ tasks[i].pc = "locked"
    /\ IF ~Connected
       THEN /\ SendAndEnd(i, Err(Msg("Error al cargar estadisticas", NotConnected)))
            /\ backend' = backend
       ELSE \E failed \in 0..4 :
              /\ failed = 0 \/ FALSE \in Verdicts(backend)
              /\ backend' = Charge(backend, failed = 0)
              /\ LET res == [n \in 1..4 |-> Cardinality(Rows(CountTables[n]))]
                 IN  IF \E n \in 1..4 : ~Succeeds(CountTables[n], n # failed)
                     THEN SendAndEnd(i, Err(Msg("Error al cargar estadisticas", StoreError)))
                     ELSE SendAndEnd(i, Ok("stats", NoMessage,
                                           DashboardStats(res[1], res[2], res[3], res[4])))
    /\ UNCHANGED db_manager

\* The list call of the three query units (get_personas_mayores,
\* get_organizaciones, get_actividades; Viajes makes no call).
\* The filter argument is the default (empty) filter or one that narrows the
\* selection; the statements have a fixed ORDER BY and no WHERE clause.  A row
\* is represented by its key, and the fixed order by the order of the keys.
Filter == {"default", "narrow"}

RECURSIVE Ordered(_)
Ordered(S) ==
    IF S = {} THEN <<>>
    ELSE LET x == CHOOSE y \in S : \A z \in S : y <= z
         IN  <<x>> \o Ordered(S \ {x})

ListResult_filtered(qt, filter, ok, prefix) ==
    IF qt = "Viajes" THEN Ok("Viajes", NoMessage, <<>>)
    ELSE IF Connected /\ Succeeds(TableOf(qt), ok)
         THEN Ok(qt, NoMessage, IF filter = "narrow" THEN <<>> ELSE Ordered(Rows(TableOf(qt))))
         ELSE Err(Msg(prefix, Cause))

ListResult(qt, filter, ok, prefix) ==
    IF qt = "Viajes" THEN Ok("Viajes", NoMessage, <<>>)
    ELSE IF Connected /\ Succeeds(TableOf(qt), ok)
         THEN Ok(qt, NoMessage, Ordered(Rows(TableOf(qt))))
         ELSE Err(Msg(prefix, Cause))

QueryPrefix(qt) ==
    CASE qt = "Personas" -> "Error al consultar personas"
      [] qt = "Organizaciones" -> "Error al consultar organizaciones"
      [] qt = "Actividades" -> "Error al consultar actividades"
      [] OTHER -> ""

\* Whether a statement on table reaches the store and can be failed by it.
Reaches(table) == Connected /\ table \in Schema

QueryCall_silent(i) ==
    /\ tasks[i].kind = "query" /\ tasks[i].pc = "locked"
    /\ \E ok \in Verdicts(backend), filter \in Filter :
         /\ Reaches(TableOf(tasks[i].arg)) \/ ok
         /\ backend' = Charge(backend, ok)
         /\ LET result == ListResult(tasks[i].arg, filter, ok, QueryPrefix(tasks[i].arg))
            IN  IF result.ok THEN SendAndEnd(i, result) ELSE End(i, chans)
    /\ UNCHANGED db_manager

\* QueriesView::execute_query's unit, with the filter the view held at the click.
QueryCall(i) ==
    /\ tasks[i].kind = "query" /\ tasks[i].pc = "locked"
    /\ \E ok \in Verdicts(backend), filter \in Filter :
         /\ Reaches(TableOf(tasks[i].arg)) \/ ok
         /\ backend' = Charge(backend, ok)
         /\ SendAndEnd(i, ListResult(tasks[i].arg, filter, ok, QueryPrefix(tasks[i].arg)))
    /\ UNCHANGED db_manager

\* execute_initial_query's and execute_auto_query's units start with
\* db.test_connection() and send the not-connected error unless it is true;
\* otherwise they make the list call.
QueryTest(i) ==
    /\ tasks[i].kind \in {"initial_query", "auto_query"} /\ tasks[i].pc = "locked"
    /\ \E okTest \in Verdicts(backend) :
         /\ Connected \/ okTest
         /\ IF ~(Connected /\ okTest)
            THEN /\ backend' = Charge(backend, okTest)
                 /\ SendAndEnd(i, Err(Msg(NotConnected, "")))
            ELSE \E ok \in Verdicts(backend) :
                   /\ Reaches(TableOf(tasks[i].arg)) \/ ok
                   /\ backend' = Charge(backend, ok)
                   /\ SendAndEnd(i, ListResult(tasks[i].arg, "default", ok,
                                               IF tasks[i].kind = "initial_query"
                                               THEN "Error al cargar datos iniciales"
                                               ELSE QueryPrefix(tasks[i].arg)))
    /\ UNCHANGED db_manager

SavedText(k) ==
    CASE k = "Persona" -> "Persona guardada exitosamente con ID"
      [] k = "Organizacion" -> "Organizacion guardada exitosamente con ID"
      [] k = "Actividad" -> "Actividad guardada exitosamente con ID"
      [] k = "MacroSector" -> "Macrosector guardado exitosamente con ID"
      [] k = "UnidadVecinal" -> "Unidad Vecinal guardada exitosamente con ID"
      [] k = "Taller" -> "Taller guardado exitosamente con ID"

SaveErrorText(k) ==
    CASE k = "Persona" -> "Error al guardar persona"
      [] k = "Organizacion" -> "Error al guardar organizacion"
      [] k = "Actividad" -> "Error al guardar actividad"
      [] k = "MacroSector" -> "Error al guardar macrosector"
      [] k = "UnidadVecinal" -> "Error al guardar unidad vecinal"
      [] k = "Taller" -> "Error al guardar taller"

InsertCall_zero(i) ==
    /\ tasks[i].kind = "insert" /\ tasks[i].pc = "locked"
    /\ LET k == tasks[i].arg
           table == InsertTableOf(k)
           id == MaxId(Rows(table)) + 1
       IN  IF ~Reaches(table)
           THEN /\ backend' = backend
                /\ SendAndEnd(i, Err(Msg(SaveErrorText(k), Cause)))
           ELSE \E ok \in (IF backend.inserted < MaxInserts THEN Verdicts(backend) ELSE {FALSE}) :
                  IF ok
                  THEN /\ backend' = [backend EXCEPT !.rows[table] = @ \cup {id}, !.inserted = @ + 1]
                       /\ SendAndEnd(i, Ok(k, Msg(SavedText(k), ToString(0)), {}))
                  ELSE /\ backend' = IF backend.inserted < MaxInserts
                                     THEN Charge(backend, ok) ELSE backend
                       /\ SendAndEnd(i, Err(Msg(SaveErrorText(k), Cause)))
    /\ UNCHANGED db_manager

InsertCall_cancelled(i) ==
    /\ tasks[i].kind = "insert" /\ tasks[i].pc = "locked"
    /\ LET k == tasks[i].arg
           table == InsertTableOf(k)
           id == MaxId(Rows(table)) + 1
       IN  IF ~Reaches(table) \/ ~chans[tasks[i].tx].rx
           THEN /\ backend' = backend
                /\ SendAndEnd(i, Err(Msg(SaveErrorText(k), Cause)))
           ELSE \E ok \in (IF backend.inserted < MaxInserts THEN Verdicts(backend) ELSE {FALSE}) :
                  IF ok
                  THEN /\ backend' = [backend EXCEPT !.rows[table] = @ \cup {id}, !.inserted = @ + 1]
                       /\ SendAndEnd(i, Ok(k, Msg(SavedText(k), ToString(id)), {}))
                  ELSE /\ backend' = IF backend.inserted < MaxInserts
                                     THEN Charge(backend, ok) ELSE backend
                       /\ SendAndEnd(i, Err(Msg(SaveErrorText(k), Cause)))
    /\ UNCHANGED db_manager

\* The units of the six save_* functions: one INSERT ... RETURNING id.
InsertCall(i) ==
    /\ tasks[i].kind = "insert" /\ tasks[i].pc = "locked"
    /\ LET k == tasks[i].arg
           table == InsertTableOf(k)
           id == MaxId(Rows(table)) + 1
       IN  IF ~Reaches(table)
           THEN /\ backend' = backend
                /\ SendAndEnd(i, Err(Msg(SaveErrorText(k), Cause)))
           ELSE \E ok \in (IF backend.inserted < MaxInserts THEN Verdicts(backend) ELSE {FALSE}) :
                  IF ok
                  THEN /\ backend' = [backend EXCEPT !.rows[table] = @ \cup {id}, !.inserted = @ + 1]
                       /\ SendAndEnd(i, Ok(k, Msg(SavedText(k), ToString(id)), {}))
                  ELSE /\ backend' = IF backend.inserted < MaxInserts
                                     THEN Charge(backend, ok) ELSE backend
                       /\ SendAndEnd(i, Err(Msg(SaveErrorText(k), Cause)))
    /\ UNCHANGED db_manager

\* The four units of InsertionsView::load_catalogs: a value only on success.
CatalogCall(i) ==
    /\ tasks[i].kind = "catalog" /\ tasks[i].pc = "locked"
    /\ LET table == CatalogTableOf(tasks[i].arg)
       IN  \E ok \in Verdicts(backend) :
             /\ Reaches(table) \/ ok
             /\ backend' = Charge(backend, ok)
             /\ IF Connected /\ Succeeds(table, ok)
                THEN SendAndEnd(i, Ok(tasks[i].arg, NoMessage, Rows(table)))
                ELSE End(i, chans)
    /\ UNCHANGED db_manager

\* App::on_exit's unit: db.disconnect().
DisconnectCall(i) ==
    /\ tasks[i].kind = "disconnect" /\ tasks[i].pc = "locked"
    /\ db_manager' = disconnect(db_manager)
    /\ End(i, chans)
    /\ UNCHANGED backend

TaskIds == 1..Len(tasks)

UnitStep ==
    \E i \in TaskIds :
        \/ Acquire(i)
        \/ ConnectCall(i)
        \/ StatsCount(i)
        \/ QueryCall(i) \/ QueryTest(i)
        \/ InsertCall(i)
        \/ CatalogCall(i)
        \/ DisconnectCall(i)

UserStep ==
    \/ Tick \/ EditConfig \/ ClickConnect \/ Navigate \/ DismissMessages
    \/ ClickRefresh \/ SelectQueryType \/ ClickBuscar
    \/ SelectInsertionType \/ EditForm \/ ClearForm \/ ClickSave
    \/ Exit

Next == UnitStep \/ UserStep

Spec == Init /\ [][Next]_vars

\* What a frame without input finds to absorb: the polls of App::update and
\* of the view on screen.  It is the enabling condition of a Tick that
\* changes the state.
TickReady ==
    /\ app.running
    /\ \/ HasValue(World, app.connection_receiver)
       \/ app.state = "Dashboard" /\ HasValue(World, dashboard_view.stats_receiver)
       \/ app.state = "Queries" /\ HasValue(World, queries_view.query_receiver)
       \/ app.state = "Insertions" /\ \/ HasValue(World, insertions_view.insertion_receiver)
                                      \/ HasValue(World, insertions_view.catalog_receiver)

\* The program under fair scheduling, with a user who connects, navigates,
\* refreshes, searches, fills in the form and saves.  The runtime runs every
\* spawned unit and the Mutex is fair, so some unit that can step does
\* (weak fairness of UnitStep); the redraw loop keeps running frames while the
\* window is open, so what a frame can absorb does not wait forever (weak
\* fairness of Tick, written with its enabling condition TickReady).
UserStepLive ==
    \/ Tick \/ ClickConnect \/ Navigate \/ ClickRefresh \/ ClickBuscar
    \/ EditForm \/ ClickSave

NextLive == UnitStep \/ UserStepLive

SpecLive == Init /\ [][NextLive]_vars /\ WF_vars(UnitStep) /\ []<>~TickReady

\* ------------------------------------------------------- utils.rs, text fields
\* A regex of the forms used here: a sequence of character classes, each with
\* its repetition bounds, anchored at both ends of the text.  is_match tries
\* every repetition count of every class.
Class(chars, min, max) == [chars |-> chars, min |-> min, max |-> max]

RECURSIVE MatchFrom(_, _, _, _)
MatchFrom(re, text, k, pos) ==
    IF k > Len(re) THEN pos = Len(text) + 1
    ELSE \E n \in re[k].min..re[k].max :
            /\ pos + n - 1 <= Len(text)
            /\ \A j \in pos..(pos + n - 1) : text[j] \in re[k].chars
            /\ MatchFrom(re, text, k + 1, pos + n)

is_match(re, text) == MatchFrom(re, text, 1, 1)

\* ^[0-9]{7,8}-[0-9Kk]$
RutRegex == <<Class(Digits, 7, 8), Class({"-"}, 1, 1), Class(Digits \cup {"K", "k"}, 1, 1)>>

LooseRutRegex == <<Class(Digits, 6, 8), Class({"-"}, 1, 1), Class(Digits \cup {"K", "k"}, 1, 1)>>

validate_rut_loose(rut) == is_match(LooseRutRegex, rut)

\* utils::validate_rut
validate_rut(rut) == is_match(RutRegex, rut)

\* chrono::NaiveDate: a day of the proleptic Gregorian calendar.
Date(y, m, d) == [year |-> y, month |-> m, day |-> d]

IsLeap(y) == (y % 4 = 0 /\ y % 100 # 0) \/ y % 400 = 0

DaysIn(y, m) ==
    CASE m = 2 -> IF IsLeap(y) THEN 29 ELSE 28
      [] m \in {4, 6, 9, 11} -> 30
      [] OTHER -> 31

IsDate(date) == date.month \in 1..12 /\ date.day \in 1..DaysIn(date.year, date.month)

calculate_age_by_year(birth_date, today) == today.year - birth_date.year

\* utils::calculate_age, with the day chrono::Local::now() gives as today.
calculate_age(birth_date, today) ==
    LET age == today.year - birth_date.year
    IN  IF \/ today.month < birth_date.month
           \/ today.month = birth_date.month /\ today.day < birth_date.day
        THEN age - 1
        ELSE age

\* Decimal digits as characters.
DigitChars == <<"0", "1", "2", "3", "4", "5", "6", "7", "8", "9">>
DigitValue(ch) == CHOOSE v \in 0..9 : DigitChars[v + 1] = ch

\* NaiveDate::format: a number zero-padded to width characters.
RECURSIVE Padded(_, _)
Padded(n, width) ==
    IF width = 0 THEN <<>> ELSE Padded(n \div 10, width - 1) \o <<DigitChars[(n % 10) + 1]>>

\* utils::format_date: "%d/%m/%Y"; and the text of a date as "%Y-%m-%d".
format_date(date) ==
    Padded(date.day, 2) \o <<"/">> \o Padded(date.month, 2) \o <<"/">> \o Padded(date.year, 4)

IsoText(date) ==
    Padded(date.year, 4) \o <<"-">> \o Padded(date.month, 2) \o <<"-">> \o Padded(date.day, 2)

\* NaiveDate::parse_from_str(text, fmt) for a format of the numeric items
\* %Y, %m, %d and literal characters.  A numeric item skips leading white
\* space and takes the longest run of digits up to its width (4 for %Y, 2
\* for %m and %d; a sign before the year is not modelled); a literal has to
\* match; text left over, or a day the calendar lacks, is an error.
ParseError == [ok |-> FALSE, date |-> Date(0, 0, 0)]
Parsed(date) == [ok |-> TRUE, date |-> date]

ItemWidth(item) == IF item = "Y" THEN 4 ELSE 2

RECURSIVE SkipSpace(_, _)
SkipSpace(text, pos) ==
    IF pos <= Len(text) /\ text[pos] = " " THEN SkipSpace(text, pos + 1) ELSE pos

RECURSIVE DigitRun(_, _, _)
DigitRun(text, pos, width) ==
    IF width = 0 \/ pos > Len(text) THEN 0
    ELSE IF text[pos] \notin Digits THEN 0
         ELSE 1 + DigitRun(text, pos + 1, width - 1)

RECURSIVE Number(_, _, _)
Number(text, pos, n) ==
    IF n = 0 THEN 0 ELSE 10 * Number(text, pos, n - 1) + DigitValue(text[pos + n - 1])

SetItem(date, item, v) ==
    CASE item = "Y" -> [date EXCEPT !.year = v]
      [] item = "m" -> [date EXCEPT !.month = v]
      [] OTHER -> [date EXCEPT !.day = v]

RECURSIVE ParseItems(_, _, _, _, _)
ParseItems(text, fmt, k, pos, date) ==
    IF k > Len(fmt)
    THEN IF pos = Len(text) + 1 /\ IsDate(date) THEN Parsed(date) ELSE ParseError
    ELSE IF fmt[k] \in {"Y", "m", "d"}
         THEN IF DigitRun(text, SkipSpace(text, pos), ItemWidth(fmt[k])) = 0
              THEN ParseError
              ELSE ParseItems(text, fmt, k + 1,
                              SkipSpace(text, pos)
                                + DigitRun(text, SkipSpace(text, pos), ItemWidth(fmt[k])),
                              SetItem(date, fmt[k],
                                      Number(text, SkipSpace(text, pos),
                                             DigitRun(text, SkipSpace(text, pos), ItemWidth(fmt[k])))))
         ELSE IF pos <= Len(text) /\ text[pos] = fmt[k]
              THEN ParseItems(text, fmt, k + 1, pos + 1, date)
              ELSE ParseError

parse_from_str(text, fmt) == ParseItems(text, fmt, 1, 1, Date(0, 0, 0))

DayMonthYear == <<"d", "/", "m", "/", "Y">>     \* "%d/%m/%Y"
YearMonthDay == <<"Y", "-", "m", "-", "d">>     \* "%Y-%m-%d"

\* utils::parse_date: "%d/%m/%Y", or else "%Y-%m-%d".
parse_date(text) ==
    IF parse_from_str(text, DayMonthYear).ok
    THEN parse_from_str(text, DayMonthYear)
    ELSE parse_from_str(text, YearMonthDay)

\* parse_from_str(.., "%Y-%m-%d").unwrap_or_else(|_| default)
unwrap_or(result, default) == IF result.ok THEN result.date ELSE default

\* The dates the three save functions put into the record they send:
\* per_fechadenac, org_fechaconst and act_fecha_ini.
per_fechadenac(text) == unwrap_or(parse_from_str(text, YearMonthDay), Date(1950, 1, 1))
org_fechaconst(text) == unwrap_or(parse_from_str(text, YearMonthDay), Date(2024, 1, 1))
act_fecha_ini(text) == unwrap_or(parse_from_str(text, YearMonthDay), Date(2024, 1, 1))

\* The texts and dates the functions are applied to.
\* National-id texts: an optional stray character, up to MaxRun digits, and a
\* tail of up to MaxTail characters.
RECURSIVE Run(_)
Run(n) == IF n = 0 THEN <<>> ELSE <<"1">> \o Run(n - 1)

TailChars == {"0", "-", "K", "k", "x", " "}

RECURSIVE Tails(_)
Tails(n) ==
    IF n = 0 THEN {<<>>}
    ELSE Tails(n - 1) \cup {t \o <<c>> : t \in {u \in Tails(n - 1) : Len(u) = n - 1}, c \in TailChars}

RutTexts == {head \o Run(n) \o tail : head \in {<<>>, <<"x">>}, n \in 0..MaxRun, tail \in Tails(MaxTail)}

\* Birth dates and reference days.
BirthDates == {Date(2000, 3, 15), Date(2000, 2, 29), Date(1999, 12, 31)}

ReferenceYears == {2023, 2024}

Days(years) == {date \in {Date(y, m, d) : y \in years, m \in 1..12, d \in 1..31} : IsDate(date)}

\* Date texts: days written as the forms advertise, the same days written
\* year first, and texts that are no date.
TypedDays == {Date(2000, 3, 15), Date(1950, 1, 1), Date(2024, 1, 1), Date(2024, 2, 29), Date(1987, 12, 31)}

DateTexts ==
    {format_date(d) : d \in TypedDays} \cup {IsoText(d) : d \in TypedDays}
        \cup {<<>>, <<"1", "5", "/", "0", "3">>, format_date(Date(2023, 2, 31)),
              <<" ">> \o IsoText(Date(2000, 3, 15)), <<"5", "/", "3", "/", "2", "0", "0", "0">>}

Typed(fn, arg) == [fn |-> fn, arg |-> arg, out |-> <<>>]

InitFields ==
    /\ Started
    /\ \/ \E text \in RutTexts : typed = Typed("rut", text)
       \/ \E birth \in BirthDates, today \in Days(ReferenceYears) : typed = Typed("age", <<birth, today>>)
       \/ \E text \in DateTexts : typed = Typed("fecha", text)

Applied(out) ==
    /\ typed.out = <<>>
    /\ typed' = [typed EXCEPT !.out = out]
    /\ UNCHANGED <<app, login_view, dashboard_view, queries_view, insertions_view,
                   db_manager, mutex, backend, chans, tasks, inputs>>

\* The two validators are applied to the national-id text.
ValidateRut ==
    /\ typed.fn = "rut"
    /\ Applied(<<validate_rut(typed.arg), validate_rut_format(typed.arg)>>)

\* The results table shows the age of a person on the day of the frame.
ShowAge ==
    /\ typed.fn = "age"
    /\ Applied(<<calculate_age(typed.arg[1], typed.arg[2])>>)

\* The three save functions build their record from the date text.
SaveFecha ==
    /\ typed.fn = "fecha"
    /\ Applied(<<per_fechadenac(typed.arg), org_fechaconst(typed.arg), act_fecha_ini(typed.arg)>>)

NextFields == ValidateRut \/ ShowAge \/ SaveFecha

SpecFields == InitFields /\ [][NextFields]_vars

\* The program with a user who only registers records and looks them up:
\* connects, goes to the Insertions or the Queries screen, fills in the form,
\* clicks Guardar (also twice before the first result arrives) and Buscar.
SaveConnect == FrameWithin(Input("connect", ""), MaxSaveInputs)
SaveNavigate ==
    \E s \in {"Insertions", "Queries"} :
        s # app.state /\ FrameWithin(Input("nav", s), MaxSaveInputs)
SaveEditForm ==
    \E entry \in PersonaEntries :
        /\ insertions_view.forms[insertions_view.insertion_type] # entry
        /\ FrameWithin(Input("edit_form", entry), MaxSaveInputs)
SaveClick == FrameWithin(Input("save", ""), MaxSaveInputs)
SaveBuscar == FrameWithin(Input("buscar", ""), MaxSaveInputs)

NextSave ==
    \/ UnitStep \/ Tick
    \/ SaveConnect \/ SaveNavigate \/ SaveEditForm \/ SaveClick \/ SaveBuscar

SpecSave == Init /\ [][NextSave]_vars

\* The program with a user who refreshes the dashboard and registers a
\* person while the statistics are still being fetched: connects, fills in
\* the Persona form, goes back to the Dashboard, clicks Actualizar, returns
\* to the Insertions screen and clicks Guardar.
StatsFrame(inp) ==
    /\ app.running
    /\ inputs < MaxStatsInputs
    /\ \A i \in 1..Len(tasks) : inputs + 1 - tasks[i].born <= MaxStatsLag
    /\ CommitInput(update([World EXCEPT !.inputs = inputs + 1], inp))
    /\ inputs' = inputs + 1

StatsConnect == StatsFrame(Input("connect", ""))
StatsNavigate ==
    \E s \in {"Dashboard", "Insertions"} : s # app.state /\ StatsFrame(Input("nav", s))
StatsEditForm ==
    /\ insertions_view.forms[insertions_view.insertion_type] # "filled"
    /\ StatsFrame(Input("edit_form", "filled"))
StatsRefresh == StatsFrame(Input("refresh", ""))
StatsSave == StatsFrame(Input("save", ""))

NextStats ==
    \/ UnitStep \/ Tick
    \/ StatsConnect \/ StatsNavigate \/ StatsEditForm \/ StatsRefresh \/ StatsSave

SpecStats == Init /\ [][NextStats]_vars

\* The program with a user who looks records up over two sessions: connects,
\* opens the Queries screen, selects a query type, clicks Desconectar in the
\* sidebar (which shows the Login screen) and connects again.
SessionConnect == FrameWithin(Input("connect", ""), MaxSessionInputs)
SessionNavigate ==
    \E s \in {"Queries", "Login"} :
        s # app.state /\ FrameWithin(Input("nav", s), MaxSessionInputs)
SessionSelectQueryType ==
    \E t \in QueryType :
        t # queries_view.query_type /\ FrameWithin(Input("query_type", t), MaxSessionInputs)

NextSession ==
    \/ UnitStep \/ Tick
    \/ SessionConnect \/ SessionNavigate \/ SessionSelectQueryType

SpecSession == Init /\ [][NextSession]_vars

\* ------------------------------------------------------------------ claims
Bridges == {c \in 1..MaxChans : chans[c].used}

\* The receivers of the four result bridges, and all receivers the controllers hold.
ResultReceivers ==
    {app.connection_receiver, dashboard_view.stats_receiver,
     queries_view.query_receiver, insertions_view.insertion_receiver} \ {None}

HeldReceivers == ResultReceivers \cup ({insertions_view.catalog_receiver} \ {None})

ReceiverFields ==
    <<app.connection_receiver, dashboard_view.stats_receiver, queries_view.query_receiver,
      insertions_view.insertion_receiver, insertions_view.catalog_receiver>>

Consumers(c) == Cardinality({k \in 1..5 : ReceiverFields[k] = c})

IsCatalogBridge(c) ==
    \/ c = insertions_view.catalog_receiver
    \/ \E i \in TaskIds : tasks[i].tx = c /\ tasks[i].kind = "catalog"

Holders == {i \in TaskIds : tasks[i].pc # "spawned"}

\* C1: every background unit sends exactly one value on its bridge before it
\* ends, on every path: on every bridge the number of values sent is the
\* number of units that held its sender and have ended.
C1_OneSendPerUnit ==
    \A c \in Bridges : chans[c].sent = chans[c].producers - chans[c].senders

\* C2: pending leads to idle: for each controller, while the redraw loop
\* keeps polling it (the window is open; for the three screens, the user is on
\* that screen), a loading flag that is true eventually becomes false, also
\* after a trigger replaced a pending bridge and when units contend for the lock.
Polled(state) == app.running /\ app.state = state

C2_PendingLeadsToIdle ==
    /\ (login_view.connecting /\ app.running)
          ~> (~login_view.connecting \/ ~app.running)
    /\ (dashboard_view.loading /\ Polled("Dashboard"))
          ~> (~dashboard_view.loading \/ ~Polled("Dashboard"))
    /\ (queries_view.loading /\ Polled("Queries"))
          ~> (~queries_view.loading \/ ~Polled("Queries"))
    /\ (insertions_view.loading /\ Polled("Insertions"))
          ~> (~insertions_view.loading \/ ~Polled("Insertions"))

C2_PendingUnderContention ==
    /\ Polled("Queries") /\ queries_view.loading
    /\ \E i \in TaskIds : tasks[i].kind \in QueryKinds /\ tasks[i].born < queries_view.issued
    /\ mutex
    /\ \E i \in TaskIds : tasks[i].pc = "spawned" /\ tasks[i].tx = queries_view.query_receiver

C7_MutualExclusion ==
    /\ [](Cardinality(Holders) <= 1 /\ (mutex <=> Holders # {}))
    /\ [][(db_manager' # db_manager \/ backend' # backend) => (mutex /\ Holders # {})]_vars

C7_Contention ==
    /\ mutex
    /\ \E i, j \in TaskIds : tasks[i].pc = "locked" /\ tasks[j].pc = "spawned"

\* C8: the UI thread never takes the lock and never makes a store call
\* inline: every step that locks, unlocks or touches the manager or the store
\* leaves the state of the UI thread as it is.
C8_UINeverInStore ==
    [][(mutex' # mutex \/ db_manager' # db_manager \/ backend' # backend)
          => UNCHANGED UIVars]_vars

C8_ExitWhileLocked ==
    /\ ~app.running /\ mutex /\ Connected
    /\ \E i \in TaskIds : tasks[i].kind = "disconnect" /\ tasks[i].pc = "spawned"

\* C9: every trigger (connect, statistics refresh, any query, any of the six
\* saves) sets its controller's loading flag in the step that installs the
\* bridge, so a controller that holds a result receiver is loading.
C9_LoadingWithBridge ==
    /\ app.connection_receiver # None => login_view.connecting
    /\ dashboard_view.stats_receiver # None => dashboard_view.loading
    /\ queries_view.query_receiver # None => queries_view.loading
    /\ insertions_view.insertion_receiver # None => insertions_view.loading

\* C10: when the queries controller absorbs an error payload, all four result
\* sets become empty and loading becomes false; when the dashboard absorbs an
\* error payload, its stats become the default value and loading becomes false
\* (loading is true again at the end of the frame only if the same frame went
\* on to install a new bridge).
C10_ErrorClears ==
    [][/\ (queries_view.absorbed' # queries_view.absorbed /\ ~queries_view.absorbed'.ok)
          => /\ queries_view.results' = NoResults
             /\ queries_view.loading' => queries_view.query_receiver' # None
       /\ (dashboard_view.absorbed' # dashboard_view.absorbed /\ ~dashboard_view.absorbed'.ok)
          => /\ dashboard_view.stats' = DashboardStatsDefault
             /\ dashboard_view.loading' => dashboard_view.stats_receiver' # None]_vars

C10_ErrorsAbsorbed ==
    /\ queries_view.absorbed.some /\ ~queries_view.absorbed.ok
    /\ queries_view.results = NoResults /\ ~queries_view.loading
    /\ dashboard_view.absorbed.some /\ ~dashboard_view.absorbed.ok
    /\ dashboard_view.stats = DashboardStatsDefault /\ ~dashboard_view.loading

\* What a frame without input absorbs from a bridge: the payload that waits
\* on the receiver rx of a controller the frame polls.
ErrorWaits(rx) == HasValue(World, rx) /\ ~Peek(World, rx).ok
SuccessWaits(rx) == HasValue(World, rx) /\ Peek(World, rx).ok

\* C11: when the insertions controller absorbs an error payload, every form
\* keeps its field values; of the state of the UI thread only the loading
\* flag, the receiver handle and the application's banner change.
ErrorKeepsForms(w, msg) ==
    /\ w.insertions_view = [insertions_view EXCEPT !.loading = FALSE, !.insertion_receiver = None]
    /\ w.app = [app EXCEPT !.error_message = msg, !.success_message = NoMessage]
    /\ w.login_view = login_view
    /\ w.dashboard_view = dashboard_view
    /\ w.queries_view = queries_view

C11_ErrorKeepsForms ==
    (Polled("Insertions") /\ ErrorWaits(insertions_view.insertion_receiver))
        => ErrorKeepsForms(update(World, NoInput), Peek(World, insertions_view.insertion_receiver).msg)

C11_ErrorAbsorbed ==
    /\ Polled("Insertions")
    /\ \E k \in InsertionType :
          /\ app.error_message = Msg(SaveErrorText(k), StoreError)
          /\ insertions_view.forms[k] = "filled"
    /\ insertions_view.insertion_receiver = None /\ ~insertions_view.loading

\* C12: when the insertions controller absorbs a success payload, the form
\* that is reset is the form of the kind whose save was submitted and the
\* other forms are left unchanged, also when the user selected another
\* insertion type between the save and the frame that absorbs the result.
SubmittedFormReset(w, kind) ==
    w.insertions_view.forms = [insertions_view.forms EXCEPT ![kind] = "default"]

C12_SubmittedFormReset ==
    (Polled("Insertions") /\ SuccessWaits(insertions_view.insertion_receiver))
        => SubmittedFormReset(update(World, NoInput), Peek(World, insertions_view.insertion_receiver).kind)

\* C13: whenever a controller (connect, dashboard, queries, insertions)
\* absorbs an error payload, the application's error banner is that error
\* message at the end of the same frame.
BannerIs(w, msg) == w.app.error_message = msg

C13_ErrorSetsBanner ==
    /\ (app.running /\ ErrorWaits(app.connection_receiver))
          => BannerIs(update(World, NoInput), Peek(World, app.connection_receiver).msg)
    /\ (Polled("Dashboard") /\ ErrorWaits(dashboard_view.stats_receiver))
          => BannerIs(update(World, NoInput), Peek(World, dashboard_view.stats_receiver).msg)
    /\ (Polled("Queries") /\ ErrorWaits(queries_view.query_receiver))
          => BannerIs(update(World, NoInput), Peek(World, queries_view.query_receiver).msg)
    /\ (Polled("Insertions") /\ ErrorWaits(insertions_view.insertion_receiver))
          => BannerIs(update(World, NoInput), Peek(World, insertions_view.insertion_receiver).msg)

\* C14: immediately after construction every controller is idle: its loading
\* flag is false, it holds no bridge, and no background unit exists.
JustConstructed ==
    <<app, login_view, dashboard_view, queries_view, insertions_view, db_manager,
      mutex, backend, chans, tasks, inputs>>
    = <<AppNew.app, AppNew.login_view, AppNew.dashboard_view, AppNew.queries_view,
        AppNew.insertions_view, AppNew.db_manager, AppNew.mutex, AppNew.backend,
        AppNew.chans, AppNew.tasks, 0>>

C14_IdleAfterConstruction ==
    JustConstructed =>
        /\ ~login_view.connecting /\ app.connection_receiver = None
        /\ ~dashboard_view.loading /\ dashboard_view.stats_receiver = None
        /\ ~queries_view.loading /\ queries_view.query_receiver = None
        /\ ~insertions_view.loading /\ insertions_view.insertion_receiver = None
        /\ insertions_view.catalog_receiver = None
        /\ tasks = <<>>

\* C15: after a failed connect result is absorbed the application is in the
\* Login state with the connection parameters as entered, connecting false,
\* the connection receiver discarded and the error banner set to the failure
\* message, and the Conectar button takes a further click; this holds in
\* every reachable state, so after any number of consecutive failures.
RetryPossible(w, msg) ==
    /\ w.app.state = "Login"
    /\ w.login_view.config = login_view.config
    /\ ~w.login_view.connecting
    /\ w.app.connection_receiver = None
    /\ w.app.error_message = msg
    /\ login_panel(w, Input("connect", "")).consumed

C15_FailedConnectRetry ==
    (app.running /\ ErrorWaits(app.connection_receiver))
        => RetryPossible(update(World, NoInput), Peek(World, app.connection_receiver).msg)

C15_SecondFailureWaits ==
    /\ app.state = "Login" /\ app.running
    /\ app.error_message = Msg("Error de conexion", StoreError)
    /\ ErrorWaits(app.connection_receiver)

\* C16: a list, lookup, insert or stats operation attempted while the manager
\* holds no connection fails with the not-connected failure and issues no
\* statement; and the not-connected failure is reported to a controller only
\* then, never for a failure the store reports on a held connection.
\* SentBy(c, kinds): this step sends the one value of bridge c, and the unit
\* that holds the lock and sends it is of one of the kinds.
SaysNotConnected(v) == ~v.ok /\ \E k \in DOMAIN v.msg : v.msg[k] = NotConnected

SentBy(c, kinds) ==
    /\ chans[c].used /\ chans[c].sent = 0
    /\ chans'[c].used /\ chans'[c].sent = 1
    /\ \E i \in TaskIds : tasks[i].pc = "locked" /\ tasks[i].tx = c /\ tasks[i].kind \in kinds

StoreCallKinds == {"stats", "query", "initial_query", "auto_query", "insert"}

C16_NotConnectedIsDistinct ==
    [][\A c \in 1..MaxChans :
          /\ (SentBy(c, StoreCallKinds) /\ ~Connected /\ chans'[c].first.kind # "Viajes")
                => SaysNotConnected(chans'[c].first) /\ backend' = backend
          /\ (SentBy(c, StoreCallKinds) /\ SaysNotConnected(chans'[c].first))
                => ~Connected]_vars

\* C17: the manager holds at most one connection handle: a successful
\* connect replaces the handle held with a new one, disconnect leaves none
\* (also when none was held), and a connect that fails leaves the handle held
\* exactly as it was.
Locked(kind) == \E i \in TaskIds : tasks[i].pc = "locked" /\ tasks[i].kind = kind

ConnectFails ==
    /\ Locked("connect")
    /\ \E c \in 1..MaxChans : /\ SentBy(c, {"connect"})
                               /\ chans'[c].first.msg = Msg("Error de conexion", StoreError)

C17_OneHandle ==
    /\ [](db_manager.client \in {None, 1, 2})
    /\ [][/\ db_manager' # db_manager
             => \/ Locked("disconnect") /\ db_manager'.client = None
                \/ Locked("connect") /\ db_manager'.client \notin {None, db_manager.client}
          /\ (Locked("disconnect") /\ tasks' # tasks) => db_manager'.client = None
          /\ ConnectFails => db_manager' = db_manager]_vars

C17_FailureKeptHandle ==
    /\ Connected /\ app.state = "Login"
    /\ HasValue(World, app.connection_receiver)
    /\ Peek(World, app.connection_receiver).msg = Msg("Error de conexion", StoreError)

\* C18: for the lists of persons, organizations and activities the returned
\* sequence does not depend on the filter argument: for any two filters and
\* the same store contents the two calls return the same result, which on
\* success is the full table in its fixed order.
ListedTypes == {"Personas", "Organizaciones", "Actividades"}

Personas == "per_personasmayores"

ReturnsNewIdentity(v) ==
    \E id \in backend'.rows[Personas] \ backend.rows[Personas] :
        /\ backend'.rows[Personas] = backend.rows[Personas] \cup {id}
        /\ v.msg = Msg(SavedText("Persona"), ToString(id))
        /\ \A y \in backend.rows[Personas] : id > y

Acceptable(form) ==
    /\ validate_rut_format(form.rut)
    /\ form.email = <<>> \/ validate_email(form.email)
    /\ form.required

InsertUnits(seq) == Cardinality({i \in 1..Len(seq) : seq[i].kind = "insert"})

NothingSubmitted(w) ==
    /\ InsertUnits(w.tasks) = InsertUnits(tasks)
    /\ w.insertions_view.insertion_receiver = insertions_view.insertion_receiver

C20_InvalidPersonStopped ==
    (/\ Polled("Insertions") /\ insertions_view.insertion_type = "Persona"
     /\ ~Acceptable(PersonaFields(insertions_view.forms["Persona"])))
        => NothingSubmitted(update([World EXCEPT !.inputs = inputs + 1], Input("save", "")))

\* C21: an Organization submission whose required name is blank (empty or
\* only whitespace) is rejected before any store call: the frame of the click
\* on Guardar spawns no insert unit and installs no bridge, so the table of
\* organizations stays as it is.
Blank(text) == \A k \in 1..Len(text) : text[k] = " "

C21_BlankNameRejected ==
    (/\ Polled("Insertions") /\ insertions_view.insertion_type = "Organizacion"
     /\ Blank(OrganizacionFields(insertions_view.forms["Organizacion"]).nombre))
        => NothingSubmitted(update([World EXCEPT !.inputs = inputs + 1], Input("save", "")))

\* C22: the two national-id validators accept exactly the texts made of 7
\* or 8 decimal digits, a dash, and one character that is a digit, K or k;
\* they reject every other text and agree on every text.
WellFormedRut(text) ==
    \E n \in {7, 8} :
        /\ Len(text) = n + 2
        /\ \A k \in 1..n : text[k] \in Digits
        /\ text[n + 1] = "-"
        /\ text[n + 2] \in Digits \cup {"K", "k"}

C22_RutValidators ==
    (typed.fn = "rut" /\ typed.out # <<>>)
        => /\ typed.out[1] = WellFormedRut(typed.arg)
           /\ typed.out[2] = WellFormedRut(typed.arg)

C22_BothAccept ==
    /\ typed.fn = "rut" /\ typed.out = <<TRUE, TRUE>>
    /\ Len(typed.arg) = 10 /\ typed.arg[10] = "k"

\* C24: the age computed for a birth date against a reference day is the
\* reference year minus the birth year, less one exactly when the reference
\* (month, day) is earlier than the birth (month, day); for a birth on
\* 2000-03-15 it is 23 on 2024-03-14 and 24 from 2024-03-15 to the end of 2024.
DayOfYearRank(date) == date.month * 32 + date.day

C24_AgeBoundary ==
    (typed.fn = "age" /\ typed.out # <<>>)
        => /\ typed.out[1] = typed.arg[2].year - typed.arg[1].year
                               - (IF DayOfYearRank(typed.arg[2]) < DayOfYearRank(typed.arg[1])
                                  THEN 1 ELSE 0)
           /\ (typed.arg[1] = Date(2000, 3, 15) /\ typed.arg[2] = Date(2024, 3, 14))
                 => typed.out[1] = 23
           /\ (/\ typed.arg[1] = Date(2000, 3, 15) /\ typed.arg[2].year = 2024
               /\ DayOfYearRank(typed.arg[2]) >= DayOfYearRank(Date(2024, 3, 15)))
                 => typed.out[1] = 24

C24_DayBeforeBirthday ==
    /\ typed.fn = "age"
    /\ typed.arg = <<Date(2000, 3, 15), Date(2024, 3, 14)>>
    /\ typed.out = <<23>>

\* C30: the date a save sends to the store (a person's birth date, an
\* organization's founding date, an activity's start date) is the date the
\* user typed whenever the typed text is a valid date written dd/mm/yyyy.
C30_TypedDateSent ==
    (typed.fn = "fecha" /\ typed.out # <<>> /\ parse_from_str(typed.arg, DayMonthYear).ok)
        => \A k \in 1..3 : typed.out[k] = parse_from_str(typed.arg, DayMonthYear).date

\* C23: the schema adjustment of a successful connect is idempotent: applied
\* to a table that an earlier connect adjusted it leaves the set of email
\* constraints as it is, so two or more connects leave the set one connect
\* leaves; and when the adjustment fails, the outcome of the connect is not
\* the failure of connect: the new connection is installed and the unit
\* reports what the connection test finds.
EmailConstraints == {"chk_per_email_formato", "chk_per_email_formato_temp"}

Adjusted == {"chk_per_email_formato_temp"}

C23_AdjustmentIdempotent ==
    /\ [](\A cs \in SUBSET EmailConstraints : \A okDrop, okAdd \in BOOLEAN :
             fix_email_constraint_temp(fix_email_constraint_temp(cs, TRUE, TRUE), okDrop, okAdd)
                = fix_email_constraint_temp(cs, TRUE, TRUE))
    /\ [][/\ (Locked("connect") /\ backend.constraints = Adjusted)
                => backend'.constraints = Adjusted
          /\ \A c \in 1..MaxChans :
                (/\ SentBy(c, {"connect"}) /\ db_manager'.client # db_manager.client
                 /\ backend'.constraints # Adjusted)
                    => \/ chans'[c].first.ok
                       \/ chans'[c].first.msg = Msg("Error al probar la conexion", "")]_vars

C23_ConnectedTwice ==
    /\ db_manager.client = 2 /\ app.is_connected /\ app.state = "Dashboard"
    /\ app.success_message = Msg("Conexion establecida exitosamente", "")
    /\ backend.constraints = Adjusted

\* C25: a background unit whose bridge was replaced by a newer trigger, or
\* whose receiver was dropped, is not cancelled: no step removes a unit that
\* waits for the lock; such a unit gets the lock and runs to its end; the step
\* in which it ends makes its store call (an insert is attempted also when a
\* second Save replaced its bridge), sends without blocking, and releases
\* the lock.
Orphan(i) == tasks[i].tx # None /\ ~chans[tasks[i].tx].rx

\* The INSERT of the unit reaches the store: a row is added or the store
\* reports a failure (the store accepts MaxInserts rows during one run).
InsertAttempted ==
    \/ backend'.inserted = backend.inserted + 1
    \/ backend'.faults = backend.faults + 1
    \/ backend.inserted >= MaxInserts

C25_NotCancelled ==
    /\ [][/\ \A i \in TaskIds :
                tasks[i].pc = "spawned"
                    => \E j \in 1..Len(tasks') : /\ tasks'[j].kind = tasks[i].kind
                                                 /\ tasks'[j].tx = tasks[i].tx
                                                 /\ tasks'[j].born = tasks[i].born
          /\ \A i \in TaskIds :
                (tasks[i].pc = "locked" /\ Orphan(i) /\ Len(tasks') < Len(tasks))
                    => /\ ~mutex'
                       /\ Len(tasks') = Len(tasks) - 1
                       /\ (tasks[i].kind = "insert" /\ Connected) => InsertAttempted
                       /\ chans'[tasks[i].tx].used
                             => chans'[tasks[i].tx].sent = chans[tasks[i].tx].sent + 1]_vars
    /\ (\E i \in TaskIds : Orphan(i)) ~> (tasks = <<>>)

C25_OrphanHoldsLock ==
    \E i, j \in TaskIds :
        /\ tasks[i].kind = "insert" /\ tasks[i].pc = "locked" /\ Orphan(i)
        /\ tasks[j].kind = "insert" /\ tasks[j].pc = "spawned"
        /\ tasks[j].tx = insertions_view.insertion_receiver
        /\ Connected

\* C26: the insert of an activity, the list of activities and the
\* dashboard's activity count operate on one table: a list of activities
\* that the store does not fail on a held connection returns the rows of the
\* table the insert writes, as many as the dashboard counts.
ListsActivities(c) ==
    /\ SentBy(c, QueryKinds)
    /\ \E i \in TaskIds : /\ tasks[i].pc = "locked" /\ tasks[i].tx = c
                            /\ tasks[i].arg = "Actividades"

C26_OneActivityTable ==
    [][\A c \in 1..MaxChans :
          (ListsActivities(c) /\ Connected /\ backend'.faults = backend.faults)
              => /\ chans'[c].first.ok
                 /\ chans'[c].first.data = Ordered(Rows(InsertTableOf("Actividad")))
                 /\ Len(chans'[c].first.data) = Cardinality(Rows(CountTables[3]))]_vars

\* C29: the application shows the Login screen exactly when it is not
\* connected: state = Login if and only if is_connected = false, also after
\* the sidebar's Desconectar.
C29_LoginIffDisconnected ==
    (app.state = "Login") <=> ~app.is_connected

\* C28: whenever the QueriesView's poll absorbs a success payload, the
\* payload's entity kind is the query type selected at that poll: a change
\* of the query type replaces the pending bridge, so a result for a type
\* selected before is never absorbed after the selection changed.
C28_AbsorbedKindIsSelected ==
    [][(queries_view.absorbed' # queries_view.absorbed /\ queries_view.absorbed'.ok)
          => Peek(World, queries_view.query_receiver).kind = queries_view.query_type]_vars

\* C27: no insert issued by the application takes effect between the first
\* and the last count of one statistics fetch: the unit holds the lock across
\* its four counts, so while it holds the lock no row is added, rows are
\* added only by an insert unit that holds the lock, and the four counts it
\* sends are those of one state of the store.
CountsOf(b) ==
    DashboardStats(Cardinality(b.rows[CountTables[1]]), Cardinality(b.rows[CountTables[2]]),
                   Cardinality(b.rows[CountTables[3]]), Cardinality(b.rows[CountTables[4]]))

C27_CountsOfOneState ==
    [][/\ Locked("stats") => backend'.rows = backend.rows
       /\ backend'.rows # backend.rows => Locked("insert")
       /\ \A c \in 1..MaxChans :
             (SentBy(c, {"stats"}) /\ chans'[c].first.ok)
                 => chans'[c].first.data = CountsOf(backend) /\ CountsOf(backend') = CountsOf(backend)]_vars

C27_InsertWaitsForStats ==
    /\ Connected /\ Locked("stats")
    /\ \E j \in TaskIds : tasks[j].kind = "insert" /\ tasks[j].pc = "spawned"

====
